---- MODULE Spec2Model ----
(***************************************************************************)
(* A model of ogma-rs: a HashMap-backed Store that is written to a single  *)
(* file ("OGMA" magic, u16 little-endian version, zstd frame holding the   *)
(* MessagePack encoding of the Store) through a temp file and a rename.    *)
(*                                                                         *)
(* Files are byte sequences.  The MessagePack and zstd codecs are external *)
(* crates; they are modelled at the byte level by the parts of their       *)
(* formats that the Store relies on:                                       *)
(*   - rmp_serde writes a struct as a fixarray of its serialized fields    *)
(*     (Store has one: map), a HashMap as a fixmap header 0x80+n followed  *)
(*     by n key/value pairs, and small unsigned integers as one byte;      *)
(*   - a zstd frame is its 4-byte magic number, one byte standing for the  *)
(*     level-dependent frame parameters, the content, and one byte         *)
(*     standing for the end of the last block (a truncated frame lacks it).*)
(***************************************************************************)
EXTENDS Integers, Sequences, FiniteSets

VARIABLES
    fs,      \* the filesystem: path -> absent | directory | regular file
    store,   \* the caller's Store value (map + options), or NoStore
    pc,      \* position inside Store::save ("idle" when no save is running)
    enc,     \* bytes buffered inside the zstd Encoder during save
    call,    \* the operation called last, with its arguments
    ret,     \* what that operation returned
    sv,      \* what save started from: destination state and map (history)
    hist,    \* the files at the start, and per path the map of the last save
             \* whose rename completed (history)
    hw       \* a Blake3Writer: bytes its inner writer took, bytes it hashed

vars == <<fs, store, pc, enc, call, ret, sv, hist, hw>>

----------------------------------------------------------------------------
(* Bounds of the model *)

\* keys are 1..NumKeys (u64 keys as in the tests)
NumKeys == 2
\* values are 1..NumValues
NumValues == 2
\* CompressionLevel::new is applied to -MaxLevelInput..MaxLevelInput and to
\* the ends of the i32 range
MaxLevelInput == 60

Keys == 1..NumKeys
Values == 1..NumValues

----------------------------------------------------------------------------
(* store.rs: constants and CompressionLevel *)

MAGIC_ID == <<79, 71, 77, 65>>
VERSION == 3

ZSTD_MIN == -7
ZSTD_MAX == 22
FAST == 3
BALANCED == 6
OPTIMAL == 9
FASTEST == ZSTD_MIN
SMALLEST_SIZE == ZSTD_MAX
DEFAULT == FAST

I32_MAX == 2147483647
I32_MIN == -I32_MAX - 1

Presets == {FASTEST, FAST, DEFAULT, BALANCED, OPTIMAL, SMALLEST_SIZE}

LevelInputs == (-MaxLevelInput..MaxLevelInput) \cup {I32_MIN, I32_MAX}

\* a bug that forgets the lower bound
clamp_upper_only(x, lo, hi) == IF x > hi THEN hi ELSE x

\* i32::clamp(min, max)
clamp(x, lo, hi) == IF x < lo THEN lo ELSE IF x > hi THEN hi ELSE x

CompressionLevelNew(level) == clamp(level, ZSTD_MIN, ZSTD_MAX)

----------------------------------------------------------------------------
(* Paths.  A path is its directory and the dot-separated parts of its file *)
(* name; the empty path "" (StoreOptions::default) has no file name.       *)

MkPath(dir, name) == [dir |-> dir, name |-> name]

EmptyPath == MkPath("", <<>>)
DataDb == MkPath("", <<"data", "db">>)

\* Path::file_stem: the name without its last extension (a name without a
\* dot, or with only a leading dot, is its own stem)
file_stem(name) ==
    IF Len(name) = 1 \/ (Len(name) = 2 /\ name[1] = "")
    THEN name
    ELSE SubSeq(name, 1, Len(name) - 1)

\* Path::with_extension: unchanged when the path has no file name
with_extension(p, ext) ==
    IF p.name = <<>> THEN p
    ELSE MkPath(p.dir, file_stem(p.name) \o ext)

\* a bug that writes the new content in place
temp_path_in_place(p) == p

temp_path(p) == with_extension(p, <<"ogma", "tmp">>)

Paths == {EmptyPath, DataDb}
AllPaths == Paths \cup {temp_path(p) : p \in Paths}

StoreOptionsNew(path) == [path |-> path, compression_level |-> DEFAULT]
StoreOptionsDefault == StoreOptionsNew(EmptyPath)

\* the options a caller can build: any path, a preset level
OptionChoices == [path : Paths, compression_level : Presets]

----------------------------------------------------------------------------
(* Files *)

Absent == [kind |-> "absent"]
Directory == [kind |-> "dir"]
\* synced: the content has reached durable storage (File::sync_all)
RegFile(data, synced) == [kind |-> "file", data |-> data, synced |-> synced]

exists(f, p) == f[p].kind # "absent"
is_file(f, p) == f[p].kind = "file"

\* File::create succeeds on a path that names something other than a
\* directory; the empty path names nothing
can_create(f, p) == p.name # <<>> /\ f[p].kind # "dir"

\* fs::rename of a regular file: the target may be absent or a regular file
can_rename(f, from, to) ==
    /\ f[from].kind = "file"
    /\ to.name # <<>>
    /\ f[to].kind # "dir"

Prefixes(s) == {SubSeq(s, 1, n) : n \in 0..Len(s)}
StrictPrefixes(s) == {SubSeq(s, 1, n) : n \in 0..(Len(s) - 1)}

----------------------------------------------------------------------------
(* Return values *)

None == [kind |-> "None"]
Some(v) == [kind |-> "Some", val |-> v]
Ok == [kind |-> "Ok"]
Unit == [kind |-> "Unit"]
Bool(b) == [kind |-> "Bool", val |-> b]
Usize(n) == [kind |-> "Usize", val |-> n]
Items(s) == [kind |-> "Items", val |-> s]
Err(e) == [kind |-> "Err", err |-> e]
ErrWrongVersion(e, a) ==
    [kind |-> "Err", err |-> "WrongVersion", expected |-> e, actual |-> a]

----------------------------------------------------------------------------
(* HashMap<K, V>, as the set of its <<key, value>> entries *)

EmptyMap == {}

KeysOf(m) == {e[1] : e \in m}

\* HashMap::get
map_get(m, k) ==
    IF k \in KeysOf(m) THEN Some((CHOOSE e \in m : e[1] = k)[2]) ELSE None

\* a bug that leaves the key's old entry in the map
map_insert_keep_old(m, k, v) == m \cup {<<k, v>>}

\* HashMap::insert: replaces the entry of the key
map_insert(m, k, v) == {e \in m : e[1] # k} \cup {<<k, v>>}

\* HashMap::remove
map_remove(m, k) == {e \in m : e[1] # k}

\* every map over Keys and Values
AllMaps ==
    {m \in SUBSET (Keys \X Values) : \A a, b \in m : a[1] = b[1] => a = b}

\* HashMap iteration: the entries in some order (the order is unspecified)
Orders(m) ==
    {o \in [1..Cardinality(m) -> m] : \A i, j \in DOMAIN o : o[i] = o[j] => i = j}

----------------------------------------------------------------------------
(* byteorder: u16 little-endian *)

\* a bug that reads the version big-endian
read_u16_be(b) == 256 * b[1] + b[2]

\* WriteBytesExt::write_u16::<LittleEndian>
write_u16_le(v) == <<v % 256, v \div 256>>

\* ReadBytesExt::read_u16::<LittleEndian>
read_u16_le(b) == b[1] + 256 * b[2]

----------------------------------------------------------------------------
(* rmp_serde: the Store as MessagePack.  #[serde(skip)] leaves the options *)
(* out, so the struct is a 1-element array holding the map.                *)

FixArray1 == <<145>>
IsFixInt(b) == b \in 0..127
IsFixMap(b) == b \in 128..143

RECURSIVE EncodeEntries(_)
EncodeEntries(o) ==
    IF o = <<>> THEN <<>>
    ELSE <<o[1][1], o[1][2]>> \o EncodeEntries(Tail(o))

\* rmp_serde::encode::write(&mut enc, self), entries in iteration order o
EncodeStore(o) == FixArray1 \o <<128 + Len(o)>> \o EncodeEntries(o)

\* a bug that keeps the first entry of a key
RECURSIVE InsertAll_first_wins(_, _)
InsertAll_first_wins(m, bytes) ==
    IF Len(bytes) < 2 THEN m
    ELSE InsertAll_first_wins(IF bytes[1] \in KeysOf(m) THEN m
                              ELSE map_insert(m, bytes[1], bytes[2]),
                              SubSeq(bytes, 3, Len(bytes)))

\* serde's HashMap visitor: insert each entry in turn
RECURSIVE InsertAll(_, _)
InsertAll(m, bytes) ==
    IF Len(bytes) < 2 THEN m
    ELSE InsertAll(map_insert(m, bytes[1], bytes[2]), SubSeq(bytes, 3, Len(bytes)))

\* rmp_serde::decode::from_read: [ok, map]; bytes after the value are not read
DecodeStore(data) ==
    IF Len(data) < 2 \/ SubSeq(data, 1, 1) # FixArray1 \/ ~IsFixMap(data[2])
    THEN [ok |-> FALSE]
    ELSE LET n == data[2] - 128
             body == SubSeq(data, 3, 2 + 2 * n)
         IN  IF Len(data) < 2 + 2 * n \/ \E i \in DOMAIN body : ~IsFixInt(body[i])
             THEN [ok |-> FALSE]
             ELSE [ok |-> TRUE, map |-> InsertAll(EmptyMap, body)]

----------------------------------------------------------------------------
(* zstd *)

ZstdMagic == <<40, 181, 47, 253>>
ZstdLastBlock == <<255>>

\* Encoder::new(file, level) ... finish(): the whole frame
ZstdFrame(level, data) ==
    ZstdMagic \o <<level - ZSTD_MIN>> \o data \o ZstdLastBlock

\* Decoder: [ok, data]; any valid level's frame is readable
ZstdDecode(frame) ==
    IF /\ Len(frame) >= 6
       /\ SubSeq(frame, 1, 4) = ZstdMagic
       /\ frame[5] \in 0..(ZSTD_MAX - ZSTD_MIN)
       /\ SubSeq(frame, Len(frame), Len(frame)) = ZstdLastBlock
    THEN [ok |-> TRUE, data |-> SubSeq(frame, 6, Len(frame) - 1)]
    ELSE [ok |-> FALSE]

----------------------------------------------------------------------------
(* The file format *)

Header == MAGIC_ID \o write_u16_le(VERSION)

\* the bytes save produces for entries in order o at a level
StoreFile(o, level) == Header \o ZstdFrame(level, EncodeStore(o))

\* a bug that checks the version before the magic identifier
ReadStore_version_first(data) ==
    IF Len(data) < 6 THEN Err("Io")
    ELSE IF read_u16_le(SubSeq(data, 5, 6)) # VERSION
         THEN ErrWrongVersion(VERSION, read_u16_le(SubSeq(data, 5, 6)))
    ELSE IF SubSeq(data, 1, 4) # MAGIC_ID THEN Err("InvalidFile")
    ELSE Err("Decode")

\* a bug that decodes the body before it looks at the header
ReadStore_decode_first(data) ==
    IF Len(data) < 6 THEN Err("Io")
    ELSE LET z == ZstdDecode(SubSeq(data, 7, Len(data)))
             d == IF z.ok THEN DecodeStore(z.data) ELSE [ok |-> FALSE]
             version == read_u16_le(SubSeq(data, 5, 6))
         IN  IF ~d.ok THEN Err("Decode")
             ELSE IF SubSeq(data, 1, 4) # MAGIC_ID THEN Err("InvalidFile")
             ELSE IF version # VERSION THEN ErrWrongVersion(VERSION, version)
             ELSE [kind |-> "Ok", map |-> d.map]

\* Store::open on an existing regular file: Ok with the map, or the error
ReadStore(data) ==
    IF Len(data) < 4 THEN Err("Io")
    ELSE IF SubSeq(data, 1, 4) # MAGIC_ID THEN Err("InvalidFile")
    ELSE IF Len(data) < 6 THEN Err("Io")
    ELSE LET version == read_u16_le(SubSeq(data, 5, 6))
         IN  IF version # VERSION THEN ErrWrongVersion(VERSION, version)
             ELSE LET z == ZstdDecode(SubSeq(data, 7, Len(data)))
                      d == IF z.ok THEN DecodeStore(z.data) ELSE [ok |-> FALSE]
                  IN  IF d.ok THEN [kind |-> "Ok", map |-> d.map]
                      ELSE Err("Decode")

----------------------------------------------------------------------------
(* The Store and its in-memory operations *)

NoStore == [kind |-> "none"]
MkStore(m, o) == [kind |-> "store", map |-> m, options |-> o]
NoSave == [kind |-> "none"]
Pending == [kind |-> "Pending"]
Lost == [kind |-> "Lost"]

Alive == store.kind = "store"
Idle == pc = "idle"

\* history is read by no action: hist records the files the run started
\* with and, at each rename that save performs, the map renamed into place
NoCommit == UNCHANGED <<hist, hw>>

\* an operation that touches neither the disk nor a running save
InMemory == UNCHANGED <<fs, pc, enc, sv>> /\ NoCommit

\* Store::new
New(o) ==
    /\ Idle
    /\ store' = MkStore(EmptyMap, o)
    /\ call' = [op |-> "new", options |-> o]
    /\ ret' = Unit
    /\ InMemory

\* Store::get
Get(k) ==
    /\ Idle /\ Alive
    /\ call' = [op |-> "get", key |-> k]
    /\ ret' = map_get(store.map, k)
    /\ UNCHANGED store
    /\ InMemory

\* Store::get_mut, and an assignment of v through the reference it returns
GetMut(k, v) ==
    /\ Idle /\ Alive
    /\ call' = [op |-> "get_mut", key |-> k, val |-> v]
    /\ ret' = map_get(store.map, k)
    /\ store' = IF k \in KeysOf(store.map)
                THEN [store EXCEPT !.map = map_insert(store.map, k, v)]
                ELSE store
    /\ InMemory

\* a bug that returns the value now stored instead of the one replaced
Set_returns_new(k, v) ==
    /\ Idle /\ Alive
    /\ call' = [op |-> "set", key |-> k, val |-> v]
    /\ ret' = Some(v)
    /\ store' = [store EXCEPT !.map = map_insert(store.map, k, v)]
    /\ InMemory

\* Store::set
Set(k, v) ==
    /\ Idle /\ Alive
    /\ call' = [op |-> "set", key |-> k, val |-> v]
    /\ ret' = map_get(store.map, k)
    /\ store' = [store EXCEPT !.map = map_insert(store.map, k, v)]
    /\ InMemory

\* Store::delete
Delete(k) ==
    /\ Idle /\ Alive
    /\ call' = [op |-> "delete", key |-> k]
    /\ ret' = map_get(store.map, k)
    /\ store' = [store EXCEPT !.map = map_remove(store.map, k)]
    /\ InMemory

\* Store::clear
Clear ==
    /\ Idle /\ Alive
    /\ call' = [op |-> "clear"]
    /\ ret' = Unit
    /\ store' = [store EXCEPT !.map = EmptyMap]
    /\ InMemory

\* Store::contains_key
ContainsKey(k) ==
    /\ Idle /\ Alive
    /\ call' = [op |-> "contains_key", key |-> k]
    /\ ret' = Bool(k \in KeysOf(store.map))
    /\ UNCHANGED store
    /\ InMemory

\* Store::len
LenOp ==
    /\ Idle /\ Alive
    /\ call' = [op |-> "len"]
    /\ ret' = Usize(Cardinality(store.map))
    /\ UNCHANGED store
    /\ InMemory

\* Store::is_empty
IsEmpty ==
    /\ Idle /\ Alive
    /\ call' = [op |-> "is_empty"]
    /\ ret' = Bool(store.map = EmptyMap)
    /\ UNCHANGED store
    /\ InMemory

\* Store::keys, consumed to the end
KeysOp ==
    /\ Idle /\ Alive
    /\ call' = [op |-> "keys"]
    /\ ret' = Items(KeysOf(store.map))
    /\ UNCHANGED store
    /\ InMemory

\* Store::values and Store::values_mut, consumed to the end without writing
ValuesOp ==
    /\ Idle /\ Alive
    /\ call' = [op |-> "values"]
    /\ ret' = Items(store.map)
    /\ UNCHANGED store
    /\ InMemory

\* a bug that persists the map when the Store is dropped
Drop_saves ==
    /\ Idle /\ Alive
    /\ call' = [op |-> "drop"]
    /\ ret' = Unit
    /\ store' = NoStore
    /\ fs' = [p \in DOMAIN fs |->
                IF p = store.options.path /\ can_create(fs, p)
                THEN RegFile(Header, FALSE)
                ELSE fs[p]]
    /\ UNCHANGED <<pc, enc, sv>>
    /\ NoCommit

\* the Store goes out of scope; there is no Drop impl
Drop ==
    /\ Idle /\ Alive
    /\ call' = [op |-> "drop"]
    /\ ret' = Unit
    /\ store' = NoStore
    /\ InMemory

----------------------------------------------------------------------------
(* Store::open *)

\* a bug that opens the file without looking whether it is there
OpenResult_missing_is_error(f, o) ==
    IF ~is_file(f, o.path) THEN Err("Io") ELSE ReadStore(f[o.path].data)

\* what open(o) returns on filesystem f
\* a bug that reads the temp file of a save when one is there
OpenResult_prefers_temp(f, o) ==
    IF is_file(f, temp_path(o.path)) /\ temp_path(o.path) # o.path
    THEN ReadStore(f[temp_path(o.path)].data)
    ELSE IF ~exists(f, o.path) \/ ~is_file(f, o.path)
    THEN [kind |-> "Ok", map |-> EmptyMap]
    ELSE ReadStore(f[o.path].data)

OpenResult(f, o) ==
    IF ~exists(f, o.path) \/ ~is_file(f, o.path)
    THEN [kind |-> "Ok", map |-> EmptyMap]
    ELSE ReadStore(f[o.path].data)

\* a bug that returns the decoded Store as it is: its skipped options field
\* holds StoreOptions::default()
Open_keeps_decoded_options(o) ==
    /\ Idle
    /\ call' = [op |-> "open", options |-> o]
    /\ LET r == OpenResult(fs, o)
       IN  IF r.kind = "Ok"
           THEN /\ store' = MkStore(r.map, IF is_file(fs, o.path)
                                           THEN StoreOptionsDefault ELSE o)
                /\ ret' = Ok
           ELSE /\ store' = store
                /\ ret' = r
    /\ InMemory

\* `store = Store::open(o)?`: on an error the caller keeps what it had
Open(o) ==
    /\ Idle
    /\ call' = [op |-> "open", options |-> o]
    /\ LET r == OpenResult(fs, o)
       IN  IF r.kind = "Ok"
           THEN /\ store' = MkStore(r.map, o)
                /\ ret' = Ok
           ELSE /\ store' = store
                /\ ret' = r
    /\ InMemory

----------------------------------------------------------------------------
(* Store::save, one step per fallible call.  A step either succeeds or     *)
(* fails; a failing `?` returns the error and drops the open file, which   *)
(* leaves the temp file as it is.  write_all may have written part of its  *)
(* buffer before it fails.                                                 *)

Dest == store.options.path
Temp == temp_path(store.options.path)

AppendTo(f, p, bytes) == [f EXCEPT ![p] = RegFile(f[p].data \o bytes, FALSE)]

\* `?` on an Err: save returns it
SaveReturns(r) ==
    /\ ret' = r
    /\ pc' = "idle"
    /\ enc' = <<>>
    /\ sv' = [sv EXCEPT !.ret = r]
    /\ UNCHANGED <<store, call>>

\* a write_all that fails after a part of `bytes`
WriteFails(bytes, e) ==
    /\ \E part \in StrictPrefixes(bytes) : fs' = AppendTo(fs, Temp, part)
    /\ SaveReturns(Err(e))

\* a bug that opens the temp file without truncating it, in append mode
SaveCreate_appends ==
    /\ Idle /\ Alive
    /\ call' = [op |-> "save"]
    /\ enc' = <<>>
    /\ UNCHANGED store
    /\ \/ /\ can_create(fs, Temp)
          /\ fs' = [fs EXCEPT ![Temp] =
                       IF is_file(fs, Temp) THEN RegFile(fs[Temp].data, FALSE)
                       ELSE RegFile(<<>>, FALSE)]
          /\ pc' = "created"
          /\ ret' = Pending
       \/ /\ UNCHANGED fs
          /\ pc' = "idle"
          /\ ret' = Err("Io")
    /\ sv' = [kind |-> "save", path |-> Dest, before |-> fs[Dest],
              map |-> store.map, level |-> store.options.compression_level,
              ret |-> ret']
    /\ NoCommit

\* let temp_path = ...; File::create(&temp_path)?
SaveCreate ==
    /\ Idle /\ Alive
    /\ call' = [op |-> "save"]
    /\ enc' = <<>>
    /\ UNCHANGED store
    /\ \/ /\ can_create(fs, Temp)
          /\ fs' = [fs EXCEPT ![Temp] = RegFile(<<>>, FALSE)]
          /\ pc' = "created"
          /\ ret' = Pending
       \/ /\ UNCHANGED fs
          /\ pc' = "idle"
          /\ ret' = Err("Io")
    /\ sv' = [kind |-> "save", path |-> Dest, before |-> fs[Dest],
              map |-> store.map, level |-> store.options.compression_level,
              ret |-> ret']
    /\ NoCommit

\* file.write_all(MAGIC_ID)?
SaveWriteMagic ==
    /\ pc = "created"
    /\ \/ /\ fs' = AppendTo(fs, Temp, MAGIC_ID)
          /\ pc' = "magic"
          /\ UNCHANGED <<store, enc, call, ret, sv>>
       \/ WriteFails(MAGIC_ID, "Io")
    /\ NoCommit

\* file.write_u16::<LittleEndian>(VERSION)?
SaveWriteVersion ==
    /\ pc = "magic"
    /\ \/ /\ fs' = AppendTo(fs, Temp, write_u16_le(VERSION))
          /\ pc' = "version"
          /\ UNCHANGED <<store, enc, call, ret, sv>>
       \/ WriteFails(write_u16_le(VERSION), "Io")
    /\ NoCommit

\* Encoder::new(file, level)?
SaveEncoderNew ==
    /\ pc = "version"
    /\ \/ /\ pc' = "encoder"
          /\ UNCHANGED <<fs, store, enc, call, ret, sv>>
       \/ /\ UNCHANGED fs
          /\ SaveReturns(Err("Io"))
    /\ NoCommit

\* rmp_serde::encode::write(&mut enc, self)?: the map's entries are visited
\* in iteration order; the encoder holds the frame and may already have
\* written a part of it to the file
SaveEncode ==
    /\ pc = "encoder"
    /\ \E o \in Orders(store.map) :
         LET frame == ZstdFrame(store.options.compression_level, EncodeStore(o))
         IN  \E n \in 0..(Len(frame) - 1) :
               /\ fs' = AppendTo(fs, Temp, SubSeq(frame, 1, n))
               /\ \/ /\ enc' = SubSeq(frame, n + 1, Len(frame))
                     /\ pc' = "encoded"
                     /\ UNCHANGED <<store, call, ret, sv>>
                  \/ SaveReturns(Err("Encode"))
    /\ NoCommit

\* a bug that never finishes the encoder: its buffer is lost
SaveFinish_forgotten ==
    /\ pc = "encoded"
    /\ enc' = <<>>
    /\ pc' = "finished"
    /\ UNCHANGED <<fs, store, call, ret, sv>>
    /\ NoCommit

\* enc.finish()?: the rest of the frame goes to the file
SaveFinish ==
    /\ pc = "encoded"
    /\ \/ /\ fs' = AppendTo(fs, Temp, enc)
          /\ enc' = <<>>
          /\ pc' = "finished"
          /\ UNCHANGED <<store, call, ret, sv>>
       \/ WriteFails(enc, "Io")
    /\ NoCommit

\* a bug that leaves out sync_all
SaveSync_skipped ==
    /\ pc = "finished"
    /\ pc' = "synced"
    /\ UNCHANGED <<fs, store, enc, call, ret, sv>>
    /\ NoCommit

\* file.sync_all()?; file.flush()? (a no-op on a File); drop(file)
SaveSync ==
    /\ pc = "finished"
    /\ \/ /\ fs' = [fs EXCEPT ![Temp].synced = TRUE]
          /\ pc' = "synced"
          /\ UNCHANGED <<store, enc, call, ret, sv>>
       \/ /\ UNCHANGED fs
          /\ SaveReturns(Err("Io"))
    /\ NoCommit

\* a bug that has a fallible step after the rename
SaveRename_then_fallible ==
    /\ pc = "synced"
    /\ can_rename(fs, Temp, Dest)
    /\ fs' = [fs EXCEPT ![Dest] = fs[Temp], ![Temp] = Absent]
    /\ \/ SaveReturns(Ok)
       \/ SaveReturns(Err("Io"))
    /\ hist' = [hist EXCEPT !.done[Dest] = Some(store.map)]
    /\ UNCHANGED hw

\* std::fs::rename(&temp_path, &self.options.path)?; Ok(())
SaveRename ==
    /\ pc = "synced"
    /\ \/ /\ can_rename(fs, Temp, Dest)
          /\ fs' = [fs EXCEPT ![Dest] = fs[Temp], ![Temp] = Absent]
          /\ hist' = [hist EXCEPT !.done[Dest] = Some(store.map)]
          /\ UNCHANGED hw
          /\ SaveReturns(Ok)
       \/ /\ UNCHANGED fs
          /\ NoCommit
          /\ SaveReturns(Err("Io"))

SaveStep ==
    \/ SaveWriteMagic
    \/ SaveWriteVersion
    \/ SaveEncoderNew
    \/ SaveEncode
    \/ SaveFinish
    \/ SaveSync
    \/ SaveRename

\* the process is terminated while save is running: memory is lost, the
\* filesystem stays as it is
Crash ==
    /\ pc # "idle"
    /\ store' = NoStore
    /\ pc' = "idle"
    /\ enc' = <<>>
    /\ call' = [op |-> "crash"]
    /\ ret' = Lost
    /\ sv' = [sv EXCEPT !.ret = Lost]
    /\ UNCHANGED fs
    /\ NoCommit

----------------------------------------------------------------------------
(* Building compression levels *)

\* CompressionLevel::new(level)
LevelNew(x) ==
    /\ Idle
    /\ call' = [op |-> "CompressionLevel::new", level |-> x]
    /\ ret' = [kind |-> "Level", val |-> CompressionLevelNew(x)]
    /\ UNCHANGED <<fs, store, pc, enc, sv>>
    /\ NoCommit

\* one of the associated constants
LevelPreset(l) ==
    /\ Idle
    /\ call' = [op |-> "CompressionLevel::preset", level |-> l]
    /\ ret' = [kind |-> "Level", val |-> l]
    /\ UNCHANGED <<fs, store, pc, enc, sv>>
    /\ NoCommit

----------------------------------------------------------------------------
(* History and the hashing writer at the start of a run *)

NewWriter == [inner |-> <<>>, hashed |-> <<>>]

InitObserved ==
    /\ hist = [init |-> fs, done |-> [p \in Paths |-> None]]
    /\ hw = NewWriter

----------------------------------------------------------------------------
(* Blake3Writer: a writer that hashes what passes through it.  `inner` is   *)
(* what the inner writer has accepted, `hashed` what the hasher was fed.    *)

MaxBuf == 2
MaxHashed == 4

HashBytes == {0, 255}
Bufs == UNION {[1..n -> HashBytes] : n \in 0..MaxBuf}

\* blake3::Hasher::finalize, taken as free of collisions
Blake3(bytes) == [kind |-> "Hash", of |-> bytes]

HashUntouched == UNCHANGED <<fs, store, pc, enc, sv, hist>>

\* Blake3Writer::new(inner)
HashNew ==
    /\ hw' = NewWriter
    /\ call' = [op |-> "Blake3Writer::new"]
    /\ ret' = Unit
    /\ HashUntouched

\* Write::write: self.hasher.update(buf); self.inner.write(buf).  The inner
\* writer takes the first n bytes of buf, any n up to its length, or fails
\* and takes none
HashWrite(buf) ==
    /\ Len(hw.hashed) + Len(buf) <= MaxHashed
    /\ call' = [op |-> "Blake3Writer::write", buf |-> buf]
    /\ \/ \E n \in 0..Len(buf) :
            /\ hw' = [inner |-> hw.inner \o SubSeq(buf, 1, n),
                      hashed |-> hw.hashed \o buf]
            /\ ret' = Usize(n)
       \/ /\ hw' = [hw EXCEPT !.hashed = hw.hashed \o buf]
          /\ ret' = Err("Io")
    /\ HashUntouched

\* Write::flush: self.inner.flush()?; self.hasher.flush()
HashFlush ==
    /\ call' = [op |-> "Blake3Writer::flush"]
    /\ ret' \in {Ok, Err("Io")}
    /\ hw' = hw
    /\ HashUntouched

\* finalize(self) -> (W, Hash)
HashFinalize ==
    /\ call' = [op |-> "Blake3Writer::finalize"]
    /\ ret' = [kind |-> "Finalized", inner |-> hw.inner,
               hash |-> Blake3(hw.hashed)]
    /\ hw' = hw
    /\ HashUntouched

HashOp ==
    \/ HashNew
    \/ \E buf \in Bufs : HashWrite(buf)
    \/ HashFlush
    \/ HashFinalize

----------------------------------------------------------------------------
(* Initial states *)

\* a store file as an earlier run wrote it
OldFile == RegFile(StoreFile(<<<<1, 1>>>>, DEFAULT), TRUE)
\* what an interrupted save leaves at the temp path
StaleTemp == RegFile(SubSeq(StoreFile(<<<<1, 2>>>>, DEFAULT), 1, 9), FALSE)
\* what a save whose rename failed leaves there: a complete file
StaleComplete == RegFile(StoreFile(<<<<1, 2>>, <<2, 2>>>>, SMALLEST_SIZE), TRUE)

MkFs(dest, temp) ==
    [p \in AllPaths |->
        IF p = DataDb THEN dest
        ELSE IF p = temp_path(DataDb) THEN temp
        ELSE Absent]

InitMemory ==
    /\ store = NoStore
    /\ pc = "idle"
    /\ enc = <<>>
    /\ call = [op |-> "start"]
    /\ ret = Unit
    /\ sv = NoSave
    /\ InitObserved

Init ==
    /\ fs \in {MkFs(d, t) : d \in {Absent, Directory, OldFile},
                            t \in {Absent, StaleTemp, StaleComplete}}
    /\ InitMemory

MemoryOp ==
    \/ \E k \in Keys : Get(k) \/ ContainsKey(k) \/ Delete(k)
    \/ \E k \in Keys, v \in Values : Set(k, v) \/ GetMut(k, v)
    \/ Clear
    \/ LenOp
    \/ IsEmpty
    \/ KeysOp
    \/ ValuesOp
    \/ Drop

NextLevel ==
    \/ \E x \in LevelInputs : LevelNew(x)
    \/ \E l \in Presets : LevelPreset(l)

\* every operation, in any order.  The specifications below are parts of
\* this one: each keeps some of its actions and draws the state they start
\* from (a Store holding any map, a file of any content) in its Init.
Next ==
    \/ NextLevel
    \/ \E o \in OptionChoices : New(o) \/ Open(o)
    \/ MemoryOp
    \/ SaveCreate
    \/ SaveStep
    \/ Crash
    \/ Idle /\ HashOp

Spec == Init /\ [][Next]_vars

----------------------------------------------------------------------------
(* Save and reopen: one save of any map, step by step, with failures and   *)
(* termination, followed by opens of the same path.                        *)

InitSave ==
    /\ fs \in {MkFs(d, t) : d \in {Absent, Directory, OldFile},
                            t \in {Absent, StaleTemp, StaleComplete}}
    /\ store \in {MkStore(m, o) : m \in AllMaps, o \in OptionChoices}
    /\ pc = "idle"
    /\ enc = <<>>
    /\ call = [op |-> "start"]
    /\ ret = Unit
    /\ sv = NoSave
    /\ InitObserved

NextSave ==
    \/ sv = NoSave /\ SaveCreate
    \/ SaveStep
    \/ Crash
    \/ \E o \in OptionChoices : sv # NoSave /\ o.path = sv.path /\ Open(o)

SpecSave == InitSave /\ [][NextSave]_vars

----------------------------------------------------------------------------
(* The in-memory operations over a filesystem that holds files *)

NextMemory ==
    \/ \E o \in OptionChoices : New(o) \/ Open(o)
    \/ MemoryOp

SpecMemory == Init /\ [][NextMemory]_vars

----------------------------------------------------------------------------
(* A Store's life: new or open, changes, saves that succeed, fail or are    *)
(* cut off, and opens again, on one path.                                   *)

LifeOptions == {StoreOptionsNew(DataDb)}

InitLife ==
    /\ fs \in {MkFs(d, Absent) : d \in {Absent, Directory, OldFile}}
    /\ InitMemory

NextLife ==
    \/ \E o \in LifeOptions : New(o) \/ Open(o)
    \/ \E k \in Keys : Delete(k)
    \/ \E k \in Keys, v \in Values : Set(k, v)
    \/ Clear
    \/ SaveCreate
    \/ SaveStep
    \/ Crash

SpecLife == InitLife /\ [][NextLife]_vars

----------------------------------------------------------------------------
(* Opening files that hold a list of records, keys repeated or not *)

MaxRecords == 3

RecordLists == UNION {[1..n -> Keys \X Values] : n \in 0..MaxRecords}

InitRecords ==
    /\ fs \in {MkFs(RegFile(StoreFile(es, l), TRUE), Absent) :
                 es \in RecordLists, l \in {FASTEST, DEFAULT}}
    /\ InitMemory

NextRecords ==
    \/ \E o \in OptionChoices : Open(o)
    \/ Drop

SpecRecords == InitRecords /\ [][NextRecords]_vars

----------------------------------------------------------------------------
(* Writes through a Blake3Writer, in any sizes the inner writer takes *)

InitHash ==
    /\ fs = MkFs(Absent, Absent)
    /\ InitMemory

SpecHash == InitHash /\ [][HashOp]_vars

----------------------------------------------------------------------------
(* Opening files of any content *)

\* the magic identifier with one byte wrong, and other files' first bytes
WrongMagics ==
    {[MAGIC_ID EXCEPT ![i] = 0] : i \in 1..4} \cup {ZstdMagic, <<79, 71, 77, 66>>}

VersionFields ==
    {write_u16_le(VERSION), write_u16_le(VERSION - 1), write_u16_le(VERSION + 1),
     <<VERSION, 1>>, <<0, VERSION>>, <<0, 0>>}

ValidBodies ==
    {ZstdFrame(l, EncodeStore(o)) :
        l \in {FASTEST, DEFAULT, SMALLEST_SIZE},
        o \in UNION {Orders(m) : m \in AllMaps}}

\* the same key twice, a truncated frame, no frame, MessagePack without a
\* frame, a frame without MessagePack, a frame parameter no level produces
OtherBodies ==
    {ZstdFrame(DEFAULT, FixArray1 \o <<130, 1, 1, 1, 2>>),
     ZstdFrame(DEFAULT, FixArray1 \o <<130, 1, 2, 1, 1>>),
     SubSeq(ZstdFrame(DEFAULT, EncodeStore(<<<<1, 1>>>>)), 1, 8),
     <<>>,
     EncodeStore(<<<<1, 1>>>>),
     ZstdFrame(DEFAULT, <<192>>),
     ZstdFrame(DEFAULT, FixArray1 \o <<129, 1>>),
     ZstdMagic \o <<99>> \o EncodeStore(<<>>) \o ZstdLastBlock}

FileContents ==
    {m \o v \o b : m \in {MAGIC_ID} \cup WrongMagics,
                   v \in VersionFields,
                   b \in ValidBodies \cup OtherBodies}
    \cup UNION {Prefixes(m \o v) : m \in {MAGIC_ID} \cup WrongMagics,
                                   v \in VersionFields}

InitOpen ==
    /\ fs \in {MkFs(d, Absent) :
                 d \in {Absent, Directory} \cup {RegFile(c, TRUE) : c \in FileContents}}
    /\ InitMemory

NextOpen ==
    \/ \E o \in OptionChoices : Open(o)
    \/ Drop

SpecOpen == InitOpen /\ [][NextOpen]_vars

----------------------------------------------------------------------------
(* Compression levels alone *)

SpecLevel == Init /\ [][NextLevel]_vars

----------------------------------------------------------------------------
(* Properties *)

FileAt(p) == fs[p]
DataAt(p) == fs[p].data
SaveRan == sv # NoSave
EntriesOf(m, k) == {e \in m : e[1] = k}
Min2(a, b) == IF a < b THEN a ELSE b
Max2(a, b) == IF a > b THEN a ELSE b

\* C1: after a save that returned Ok, open on the same path (with any
\* compression level) returns Ok with a Store holding exactly the
\* (key, value) pairs of the Store that was saved.
C1_RoundTrip ==
    (SaveRan /\ sv.ret = Ok /\ call.op = "open" /\ call.options.path = sv.path)
    => /\ ret = Ok
       /\ store.kind = "store"
       /\ store.map = sv.map

C1_Witness ==
    /\ SaveRan /\ sv.ret = Ok /\ sv.before = OldFile
    /\ call.op = "open" /\ ret = Ok
    /\ Cardinality(store.map) = NumKeys
    /\ store.options.compression_level # sv.level

\* C2: from the moment save starts, through every step, failure and
\* termination, the destination is what it was before the save or it is a
\* complete store file that opens to the saved map.
C2_CrashAtomic ==
    SaveRan =>
        \/ FileAt(sv.path) = sv.before
        \/ /\ FileAt(sv.path).kind = "file"
           /\ ReadStore(DataAt(sv.path)) = [kind |-> "Ok", map |-> sv.map]

\* terminated with a torn temp file beside the untouched old file
C2_Witness ==
    /\ SaveRan /\ call.op = "crash"
    /\ FileAt(sv.path) = OldFile
    /\ sv.map # {<<1, 1>>}
    /\ FileAt(temp_path(sv.path)).kind = "file"
    /\ Len(DataAt(temp_path(sv.path))) > Len(Header)
    /\ ReadStore(DataAt(temp_path(sv.path))) = Err("Decode")

\* C3: when save has returned an error, whichever step failed, the
\* destination is exactly what it was before the call.
C3_FailureLeavesDisk ==
    (SaveRan /\ sv.ret.kind = "Err") => FileAt(sv.path) = sv.before

\* the rename itself failed: the finished, synced temp file stays behind
C3_Witness ==
    /\ SaveRan /\ sv.ret = Err("Io") /\ pc = "idle"
    /\ sv.before = Directory
    /\ FileAt(temp_path(sv.path)).kind = "file"
    /\ FileAt(temp_path(sv.path)).synced
    /\ ReadStore(DataAt(temp_path(sv.path))) = [kind |-> "Ok", map |-> sv.map]

\* C4: open on a path that is absent or not a regular file returns Ok with an
\* empty Store carrying the options given, and leaves the filesystem as it is.
C4_EmptyOpen ==
    [][(call'.op = "open" /\ ~is_file(fs, call'.options.path))
        => /\ ret' = Ok
           /\ store' = MkStore(EmptyMap, call'.options)
           /\ Cardinality(store'.map) = 0
           /\ fs' = fs]_vars

C4_Witness ==
    /\ call.op = "open" /\ ret = Ok
    /\ FileAt(call.options.path) = Directory
    /\ store = MkStore(EmptyMap, call.options)
    /\ call.options.compression_level = SMALLEST_SIZE

\* C5: open on a regular file whose first 4 bytes are not the magic identifier
\* fails with InvalidFile, whatever follows them.
C5_MagicCheck ==
    (/\ call.op = "open"
     /\ is_file(fs, call.options.path)
     /\ Len(DataAt(call.options.path)) >= 4
     /\ SubSeq(DataAt(call.options.path), 1, 4) # <<79, 71, 77, 65>>)
    => ret = Err("InvalidFile")

\* only the magic identifier is wrong: the version and the body are valid
C5_Witness ==
    /\ call.op = "open" /\ ret = Err("InvalidFile")
    /\ is_file(fs, call.options.path)
    /\ DataAt(call.options.path) =
         <<79, 71, 77, 66>> \o write_u16_le(VERSION)
            \o ZstdFrame(DEFAULT, EncodeStore(<<<<1, 1>>>>))

\* C6: open on a regular file with the magic identifier and a version field
\* other than the supported version fails with WrongVersion, expected being the
\* supported version and actual the little-endian value of bytes 5 and 6; the
\* caller gets no Store and the file is left as it is.
C6_VersionCheck ==
    [][(/\ call'.op = "open"
        /\ is_file(fs, call'.options.path)
        /\ Len(DataAt(call'.options.path)) >= 6
        /\ SubSeq(DataAt(call'.options.path), 1, 4) = MAGIC_ID
        /\ DataAt(call'.options.path)[5] + 256 * DataAt(call'.options.path)[6] # 3)
        => /\ ret' = ErrWrongVersion(3, DataAt(call'.options.path)[5]
                                         + 256 * DataAt(call'.options.path)[6])
           /\ store' = store
           /\ fs' = fs]_vars

\* version bytes 03 01 (259) before a valid body
C6_Witness ==
    /\ call.op = "open" /\ ret = ErrWrongVersion(3, 259)
    /\ is_file(fs, call.options.path)
    /\ SubSeq(DataAt(call.options.path), 7, Len(DataAt(call.options.path)))
         \in ValidBodies
    /\ store = NoStore

\* C7: set(k, v) and delete(k) return Some(old), old being the value stored
\* under k before the call, when k is present, and None when it is absent.
C7_UpsertReturns ==
    [][\A k \in Keys :
        ((call'.op = "set" \/ call'.op = "delete") /\ call'.key = k)
        => IF EntriesOf(store.map, k) = {}
           THEN ret' = None
           ELSE \A e \in EntriesOf(store.map, k) : ret' = Some(e[2])]_vars

\* a set that replaced a different value
C7_Witness ==
    /\ call.op = "set" /\ ret.kind = "Some" /\ ret.val # call.val

\* C8: after set(k, v) get(k) is v and contains_key(k) holds; after delete(k)
\* get(k) is None and contains_key(k) fails; either way every other key keeps
\* its value, no key has two entries and len is the number of distinct keys.
C8_SetDeleteEffect ==
    [][\A k \in Keys :
        ((call'.op = "set" \/ call'.op = "delete") /\ call'.key = k)
        => /\ call'.op = "set" =>
                /\ map_get(store'.map, k) = Some(call'.val)
                /\ EntriesOf(store'.map, k) = {<<k, call'.val>>}
                /\ k \in KeysOf(store'.map)
           /\ call'.op = "delete" =>
                /\ map_get(store'.map, k) = None
                /\ k \notin KeysOf(store'.map)
           /\ \A j \in Keys \ {k} :
                EntriesOf(store'.map, j) = EntriesOf(store.map, j)
           /\ \A a, b \in store'.map : a[1] = b[1] => a = b
           /\ Cardinality(store'.map) = Cardinality(KeysOf(store'.map))]_vars

\* a delete of a present key that left another key in the map
C8_Witness ==
    /\ call.op = "delete" /\ ret.kind = "Some"
    /\ store.kind = "store"
    /\ Cardinality(store.map) = NumKeys - 1
    /\ store.map # EmptyMap

\* C9: CompressionLevel::new(x) holds min(max(x, -7), 22) for every i32 x, and
\* every level from new or from a preset lies in -7..22.
C9_Clamp ==
    /\ call.op = "CompressionLevel::new" =>
          /\ call.level \in I32_MIN..I32_MAX
          /\ ret.kind = "Level"
          /\ ret.val = Min2(Max2(call.level, -7), 22)
          /\ ret.val \in -7..22
    /\ call.op = "CompressionLevel::preset" =>
          /\ ret.kind = "Level"
          /\ ret.val \in -7..22

C9_Witness ==
    /\ call.op = "CompressionLevel::new"
    /\ call.level = I32_MIN
    /\ ret.val = -7

\* C10: new, open, the accessors, the mutators and the drop of a Store leave
\* every file, at the destination and at the temp path, as it is.
C10_NoImplicitPersistence ==
    [][call'.op \in {"new", "open", "get", "get_mut", "contains_key", "set",
                     "delete", "clear", "len", "is_empty", "keys", "values",
                     "drop"}
        => fs' = fs]_vars

\* a Store was dropped beside the old file and a stale temp file
C10_Witness ==
    /\ call.op = "drop"
    /\ store = NoStore
    /\ FileAt(DataDb) = OldFile
    /\ FileAt(temp_path(DataDb)) = StaleTemp

\* C11: an open that fails on an existing regular file fails with InvalidFile,
\* WrongVersion or Decode and with no other kind of error, whatever the file
\* holds (an empty file, a file shorter than the 6-byte header, a corrupt body).
C11_OpenErrorKinds ==
    (/\ call.op = "open"
     /\ is_file(fs, call.options.path)
     /\ ret.kind = "Err")
    => ret.err \in {"InvalidFile", "WrongVersion", "Decode"}

\* C12: the Store that open returns carries the path and the compression level
\* given to that open, whatever the options of the Store that wrote the file;
\* its map is the same for every level the reader could pass and for every
\* level the writer could have used.
C12_OptionsNotPersisted ==
    (call.op = "open" /\ ret = Ok)
    => /\ store.options = call.options
       /\ \A l \in Presets :
            OpenResult(fs, [call.options EXCEPT !.compression_level = l])
                = [kind |-> "Ok", map |-> store.map]
       /\ (SaveRan /\ sv.ret = Ok /\ call.options.path = sv.path) =>
            \A l \in Presets, o \in Orders(sv.map) :
                ReadStore(StoreFile(o, l)) = [kind |-> "Ok", map |-> store.map]

\* written at the highest level, opened with the lowest
C12_Witness ==
    /\ call.op = "open" /\ ret = Ok
    /\ SaveRan /\ sv.ret = Ok
    /\ sv.level = SMALLEST_SIZE
    /\ store.options.compression_level = FASTEST
    /\ store.map # EmptyMap

\* C13: an open returns exactly the map of the most recent save on that path
\* whose rename completed, whatever was set, deleted, cleared, saved without
\* success or cut off since; with no completed save and no file there before,
\* it returns an empty Store.
C13_LastSaveWins ==
    call.op = "open" =>
        LET p == call.options.path
        IN  /\ hist.done[p] # None =>
                /\ ret = Ok
                /\ store.map = hist.done[p].val
            /\ (hist.done[p] = None /\ hist.init[p] = Absent) =>
                /\ ret = Ok
                /\ store.map = EmptyMap

C13_Witness ==
    /\ call.op = "open" /\ ret = Ok
    /\ hist.done[call.options.path] # None
    /\ SaveRan /\ sv.ret # Ok
    /\ sv.map # store.map
    /\ store.map # EmptyMap

\* C14: in every save, a step that changes the destination or takes the temp
\* file away is the rename: before it the temp file holds the magic, then the
\* version, then the whole finished frame of the map, and is synced; the
\* destination becomes that file, no filesystem step of the save follows it,
\* and save returns Ok at that step and at no other.
TempComplete ==
    /\ is_file(fs, Temp)
    /\ fs[Temp].synced
    /\ SubSeq(fs[Temp].data, 1, 4) = MAGIC_ID
    /\ SubSeq(fs[Temp].data, 5, 6) = write_u16_le(VERSION)
    /\ \E o \in Orders(store.map) :
         SubSeq(fs[Temp].data, 7, Len(fs[Temp].data))
             = ZstdFrame(store.options.compression_level, EncodeStore(o))

IsRenameStep ==
    /\ TempComplete
    /\ fs' = [fs EXCEPT ![Dest] = fs[Temp], ![Temp] = Absent]
    /\ pc' = "idle"
    /\ call'.op = "save"
    /\ ret' = Ok

C14_SaveOrdering ==
    [][Alive =>
        /\ (fs'[Dest] # fs[Dest] \/ (exists(fs, Temp) /\ ~exists(fs', Temp)))
              => IsRenameStep
        /\ (call'.op = "save" /\ ret' = Ok /\ ret = Pending) => IsRenameStep
        /\ (pc = "idle" /\ sv # NoSave) => fs' = fs]_vars

C14_Witness ==
    /\ call.op = "save" /\ ret = Ok
    /\ sv.before = OldFile
    /\ sv.level = OPTIMAL
    /\ sv.map # EmptyMap
    /\ fs[sv.path].synced
    /\ ~exists(fs, temp_path(sv.path))
    /\ ReadStore(DataAt(sv.path)) = [kind |-> "Ok", map |-> sv.map]

\* C15: open on a regular file reports a decode error or a map only when the
\* first four bytes are the magic identifier and the version field is the
\* supported one; with both wrong it reports InvalidFile, and it reports
\* WrongVersion only when the magic identifier matched.
MagicMatches(data) == Len(data) >= 4 /\ SubSeq(data, 1, 4) = MAGIC_ID
VersionMatches(data) == Len(data) >= 6 /\ data[5] + 256 * data[6] = VERSION

C15_HeaderBeforeDecode ==
    (call.op = "open" /\ is_file(fs, call.options.path)) =>
        LET data == DataAt(call.options.path)
        IN  /\ (Len(data) >= 6 /\ ~MagicMatches(data) /\ ~VersionMatches(data))
                  => ret = Err("InvalidFile")
            /\ (ret.kind = "Err" /\ ret.err = "WrongVersion")
                  => MagicMatches(data) /\ ~VersionMatches(data)
            /\ (ret = Ok \/ ret = Err("Decode"))
                  => MagicMatches(data) /\ VersionMatches(data)

\* wrong magic, wrong version and a body that is no frame
C15_Witness ==
    /\ call.op = "open" /\ ret = Err("InvalidFile")
    /\ is_file(fs, call.options.path)
    /\ Len(DataAt(call.options.path)) > 6
    /\ ~MagicMatches(DataAt(call.options.path))
    /\ ~VersionMatches(DataAt(call.options.path))
    /\ ~ZstdDecode(SubSeq(DataAt(call.options.path), 7,
                          Len(DataAt(call.options.path)))).ok

\* C16: open on a regular file of any length, empty and shorter than four
\* bytes included, whose content does not begin with the magic identifier
\* fails with InvalidFile.
C16_ForeignIsInvalidFile ==
    (/\ call.op = "open"
     /\ is_file(fs, call.options.path)
     /\ ~MagicMatches(DataAt(call.options.path)))
    => ret = Err("InvalidFile")

\* C17: for every destination path a Store can be configured with, the path
\* save creates and writes is in the directory of the destination and is not
\* the destination, and a step that writes without being the rename leaves
\* the destination as it is.
C17_TempPathDiscipline ==
    SaveRan =>
        /\ temp_path(sv.path).dir = sv.path.dir
        /\ temp_path(sv.path) # sv.path
        /\ (pc # "idle" \/ sv.ret # Ok) => FileAt(sv.path) = sv.before

\* C18: when the list of records in the file holds a key more than once, the
\* map open builds has for each key of the list the value of its last record,
\* has no other key, and counts each key once.
\* The records of a store file: after the 6 header bytes and the 5 bytes that
\* start the frame come the array and map markers, then one key byte and one
\* value byte per record.
RecordCount(data) == data[13] - 128
RecordKey(data, i) == data[12 + 2 * i]
RecordValue(data, i) == data[13 + 2 * i]
LastRecord(data, k) ==
    CHOOSE i \in 1..RecordCount(data) :
        /\ RecordKey(data, i) = k
        /\ \A j \in (i + 1)..RecordCount(data) : RecordKey(data, j) # k

C18_LastDuplicateWins ==
    (call.op = "open" /\ is_file(fs, call.options.path)) =>
        LET data == DataAt(call.options.path)
            ks == {RecordKey(data, i) : i \in 1..RecordCount(data)}
        IN  /\ ret = Ok
            /\ KeysOf(store.map) = ks
            /\ Cardinality(store.map) = Cardinality(ks)
            /\ \A k \in ks :
                 EntriesOf(store.map, k)
                     = {<<k, RecordValue(data, LastRecord(data, k))>>}

\* key 1 in the first and the last of three records, with different values
C18_Witness ==
    /\ call.op = "open" /\ ret = Ok
    /\ is_file(fs, call.options.path)
    /\ RecordCount(DataAt(call.options.path)) = 3
    /\ RecordKey(DataAt(call.options.path), 1) = 1
    /\ RecordKey(DataAt(call.options.path), 2) = 2
    /\ RecordKey(DataAt(call.options.path), 3) = 1
    /\ RecordValue(DataAt(call.options.path), 1) = 1
    /\ RecordValue(DataAt(call.options.path), 3) = 2
    /\ store.map = {<<1, 2>>, <<2, RecordValue(DataAt(call.options.path), 2)>>}

\* C19: with a temp file of any content left behind by an earlier save, a
\* save that returned Ok leaves at the destination exactly one encoding of
\* the map that was saved, byte for byte, and nothing at the temp path; and
\* what open returns does not depend on what is at the temp path.
TempLeftovers == {Absent, Directory, StaleTemp, StaleComplete}

C19_StaleTempHarmless ==
    /\ (SaveRan /\ sv.ret = Ok) =>
          /\ is_file(fs, sv.path)
          /\ \E o \in Orders(sv.map) : DataAt(sv.path) = StoreFile(o, sv.level)
          /\ ~exists(fs, temp_path(sv.path))
    /\ (call.op = "open" /\ call.options.path.name # <<>>) =>
          \A t \in TempLeftovers :
             LET r == OpenResult([fs EXCEPT ![temp_path(call.options.path)] = t],
                                 call.options)
             IN  IF r.kind = "Ok" THEN ret = Ok /\ store.map = r.map
                 ELSE ret = r

\* a complete file of another map was at the temp path when the save began
C19_Witness ==
    /\ SaveRan /\ sv.ret = Ok
    /\ hist.init[temp_path(sv.path)] = StaleComplete
    /\ sv.map \notin {{<<1, 2>>, <<2, 2>>}, EmptyMap}
    /\ call.op = "open" /\ ret = Ok
    /\ store.map = sv.map

\* C20: after any writes through a Blake3Writer, short and failed ones
\* included, the bytes fed to the hasher are the bytes the inner writer
\* accepted, and finalize returns the hash of exactly those bytes.
C20_HashOfWritten ==
    /\ hw.hashed = hw.inner
    /\ call.op = "Blake3Writer::finalize" => ret.hash = Blake3(ret.inner)

=============================================================================
